---- MODULE Spec2Model ----
(***************************************************************************)
(* Model of batch_calculate/run.py: the segmented parallel search          *)
(* coordinator.  The main thread partitions the range and starts one       *)
(* worker thread per segment; each worker thread launches an engine        *)
(* process, registers it, starts a reader thread and waits for the         *)
(* process; the main thread polls the queues, then terminates what is      *)
(* left in the registry, sleeps and reports.                               *)
(***************************************************************************)
EXTENDS Integers, Sequences, FiniteSets, TLC

(* ---------------- bounds of the model ---------------- *)

\* NUM_SEGMENTS of the run that is model-checked (run.py uses 8)
NUM_SEGMENTS == 2
\* PROGRESS_THROTTLE of the run that is model-checked (run.py uses 10)
PROGRESS_THROTTLE == 2
\* lines the engine processes write at most, all together
MaxLines == 2
\* partitioner inputs: largest total_end - total_start, segment count, overlap
MaxTotalLen == 7
MaxSegs == 3
MaxOverlap == 2

VARIABLES
    cfg,              \* TOTAL_START, TOTAL_END, NUM_SEGMENTS, OVERLAP
    seg_len,          \* main: seg_len
    segs,             \* the segments printed and handed to the workers
    pc,               \* main thread: position
    started,          \* main: i of the startup loop
    idx,              \* main: position of the list iterator in use
    stop_event,       \* stop_event.is_set()
    results,          \* results[seg_id]
    progress_counter, \* main: progress_counter
    printed,          \* lines printed by the main loop, counted by kind
    report,           \* the final report
    wpc,              \* worker thread of each segment: position
    returncode,       \* process of each segment, as poll() sees it
    taskset,          \* what taskset did in that process
    signalled,        \* SIGTERMs sent to each engine process
    processes,        \* the list processes
    output_queues,    \* the list output_queues
    queue,            \* queue.Queue of each worker
    nwritten,         \* history: lines the engines have written so far
    wrote_success     \* history: the engine has written a SUCCESS: line

vars == <<cfg, seg_len, segs, pc, started, idx, stop_event, results,
          progress_counter, printed, report, wpc, returncode, taskset,
          signalled, processes, output_queues, queue, nwritten,
          wrote_success>>

mainVars == <<pc, idx, stop_event, results, progress_counter, printed, report>>
workerVars == <<wpc, returncode, taskset, processes, output_queues, queue>>
partVars == <<cfg, seg_len, segs, started>>

(* ---------------- values ---------------- *)

None == <<-1>>

\* str(n) of a number n >= 0
RECURSIVE Digits(_)
Digits(n) == IF n < 10 THEN <<n>> ELSE Append(Digits(n \div 10), n % 10)

\* the value the engine of segment i prints when it finds one: 120, 180, ...
SuccessValue(i) == Digits(120 + 60 * i)

\* raw lines an engine writes: a protocol prefix with a payload, free text,
\* or a line of white space only
RawLines(i) ==
    {[kind |-> "PROGRESS:", val |-> <<7>>],
     [kind |-> "SUCCESS:", val |-> SuccessValue(i)],
     [kind |-> "text", val |-> <<>>],
     [kind |-> "blank", val |-> <<>>]}

RECURSIVE NumOf(_)
NumOf(s) == IF s = <<>> THEN 0 ELSE 10 * NumOf(SubSeq(s, 1, Len(s) - 1)) + s[Len(s)]

RECURSIVE StrLess(_, _)
StrLess(a, b) ==
    IF a = <<>> THEN b # <<>>
    ELSE IF b = <<>> THEN FALSE
    ELSE IF a[1] # b[1] THEN a[1] < b[1]
    ELSE StrLess(Tail(a), Tail(b))

Max(a, b) == IF a > b THEN a ELSE b
Min(a, b) == IF a < b THEN a ELSE b

Segs == 0 .. (cfg.n - 1)

(* ---------------- RangePartitioner ---------------- *)

SegLen(c) == (c.te - c.ts) \div c.n

SegStart(c, sl, i) == c.ts + i * sl

\* mutant of SegEnd: the "- 1" of line 81 forgotten
SegEndOffByOne(c, sl, i) == IF i < c.n - 1 THEN c.ts + (i + 1) * sl ELSE c.te

SegEnd(c, sl, i) == IF i < c.n - 1 THEN c.ts + (i + 1) * sl - 1 ELSE c.te

\* mutant of ExtStart: the max() of line 82 forgotten
ExtStartUnclipped(c, sl, i) == SegStart(c, sl, i) - c.ov

ExtStart(c, sl, i) == Max(c.ts, SegStart(c, sl, i) - c.ov)

\* mutant of ExtEnd: the min() of line 83 forgotten
ExtEndUnclipped(c, sl, i) == SegEnd(c, sl, i) + c.ov

\* mutant of ExtEnd: the overlap of line 83 forgotten
ExtEndNoOverlap(c, sl, i) == Min(c.te, SegEnd(c, sl, i))

ExtEnd(c, sl, i) == Min(c.te, SegEnd(c, sl, i) + c.ov)

Segment(c, sl, i) ==
    [id |-> i,
     core_start |-> SegStart(c, sl, i), core_end |-> SegEnd(c, sl, i),
     extended_start |-> ExtStart(c, sl, i), extended_end |-> ExtEnd(c, sl, i)]

(* ---------------- initial states ---------------- *)

ExampleCfg == [ts |-> 100, te |-> 200, n |-> 2, ov |-> 5]

MainCfg == [ts |-> 100, te |-> 200, n |-> NUM_SEGMENTS, ov |-> 5]

PartCfgs ==
    {ExampleCfg} \cup
    {[ts |-> s, te |-> s + l, n |-> k, ov |-> o] :
        s \in {0, 3}, l \in 0 .. MaxTotalLen, k \in 0 .. MaxSegs, o \in 0 .. MaxOverlap}

InitWith(c) ==
    /\ cfg = c
    /\ seg_len = 0
    /\ segs = <<>>
    /\ pc = "begin"
    /\ started = 0
    /\ idx = 1
    /\ stop_event = FALSE
    /\ results = [i \in 0 .. (c.n - 1) |-> None]
    /\ progress_counter = 0
    /\ printed = [progress |-> 0, info |-> 0]
    /\ report = [kind |-> "pending", val |-> None]
    /\ wpc = [i \in 0 .. (c.n - 1) |-> "notstarted"]
    /\ returncode = [i \in 0 .. (c.n - 1) |-> "unborn"]
    /\ taskset = [i \in 0 .. (c.n - 1) |-> "unborn"]
    /\ signalled = [i \in 0 .. (c.n - 1) |-> 0]
    /\ processes = <<>>
    /\ output_queues = <<>>
    /\ queue = [i \in 0 .. (c.n - 1) |-> <<>>]
    /\ nwritten = 0
    /\ wrote_success = [i \in 0 .. (c.n - 1) |-> FALSE]

Init == InitWith(MainCfg)

InitPart == \E c \in PartCfgs : InitWith(c)

(* ---------------- main thread: startup ---------------- *)

\* lines 75-76; NUM_SEGMENTS = 0 raises ZeroDivisionError
ComputeSegLen ==
    /\ pc = "begin"
    /\ IF cfg.n = 0
       THEN pc' = "crashed" /\ UNCHANGED seg_len
       ELSE pc' = "startup" /\ seg_len' = SegLen(cfg)
    /\ UNCHANGED <<cfg, segs, started, idx, stop_event, results, progress_counter,
                   printed, report, signalled, nwritten,
                   wrote_success>>
    /\ UNCHANGED workerVars

\* lines 79-90: one iteration of the startup loop
StartSegment ==
    /\ pc = "startup"
    /\ started < cfg.n
    /\ segs' = Append(segs, Segment(cfg, seg_len, started))
    /\ wpc' = [wpc EXCEPT ![started] = "popen"]
    /\ started' = started + 1
    /\ UNCHANGED <<cfg, seg_len, signalled, nwritten, wrote_success>>
    /\ UNCHANGED mainVars
    /\ UNCHANGED <<returncode, taskset, processes, output_queues, queue>>

\* the loop of line 79 is over; line 93, and line 95 for the first time
EnterLoop ==
    /\ pc = "startup"
    /\ started >= cfg.n
    /\ pc' = "for_q"
    /\ idx' = 1
    /\ UNCHANGED <<stop_event, results, progress_counter, printed, report>>
    /\ UNCHANGED <<signalled, nwritten, wrote_success>>
    /\ UNCHANGED partVars
    /\ UNCHANGED workerVars

(* ---------------- line protocol ---------------- *)

\* line 29: line.strip()
Strip(raw) == IF raw.kind = "blank" THEN [kind |-> "", val |-> <<>>] ELSE raw

\* mutant of Put: the new item goes in front of the waiting ones
PutFront(qu, item) == <<item>> \o qu

\* line 29: queue.put
Put(qu, item) == Append(qu, item)

\* line 100: the item q.get_nowait() returns, and what it leaves in the queue
GetNowait(qu) == Head(qu)
AfterGet(qu) == Tail(qu)

\* mutant of Classify: any line that is not PROGRESS: and not empty taken
\* for a success
ClassifyLoose(line) ==
    IF line.kind = "PROGRESS:" THEN "progress"
    ELSE IF line.kind # "" THEN "success"
    ELSE "other"

\* lines 105, 111, 117: the branch a dequeued line takes
Classify(line) ==
    IF line.kind = "PROGRESS:" THEN "progress"
    ELSE IF line.kind = "SUCCESS:" THEN "success"
    ELSE "other"

\* mutant of InfoPrinted: the test of line 119 forgotten
InfoPrintedAlways(line) == TRUE

\* line 119: if line
InfoPrinted(line) == line.kind # ""

\* mutant of ThrottleHit: the first line of every group printed
ThrottleHitFirst(c) == c % PROGRESS_THROTTLE = 1

\* line 107
ThrottleHit(c) == c % PROGRESS_THROTTLE = 0

\* mutant of SuccessNextPc: the break of line 116 forgotten
SuccessNextPcNoBreak == "for_q"

\* lines 115-116 and 95: stop_event is set and the for loop is left, so the
\* while condition fails and control reaches line 134
SuccessNextPc == "shutdown"

\* mutant of AllExitedNextPc: the break of line 128 forgotten
AllExitedNextPcNoBreak == "for_q"

\* line 128: break, control reaches line 134
AllExitedNextPc == "shutdown"

\* line 95, evaluated at the end of a tick
WhileNextPc(stop) == IF stop THEN "shutdown" ELSE "for_q"

\* line 143
Found(res) == SelectSeq([k \in 1 .. cfg.n |-> res[k - 1]], LAMBDA r : r # None)

\* line 145: min() of a list of str
RECURSIVE MinStr(_)
MinStr(f) ==
    IF Len(f) = 1 THEN f[1]
    ELSE LET m == MinStr(Tail(f)) IN IF StrLess(m, f[1]) THEN m ELSE f[1]

\* lines 143-147
FinalReport(res) ==
    IF Found(res) # <<>>
    THEN [kind |-> "min", val |-> MinStr(Found(res))]
    ELSE [kind |-> "none", val |-> None]

Remove(list, x) == SelectSeq(list, LAMBDA y : y # x)

Running == pc \notin {"done", "aborted", "crashed"}

LoopPcs == {"for_q", "all_p"}

(* ---------------- main thread: the polling loop ---------------- *)

\* line 98: the iterator over output_queues is exhausted; lines 122-127
QueuesDone ==
    /\ pc = "for_q"
    /\ idx > Len(output_queues)
    /\ pc' = "all_p"
    /\ idx' = 1
    /\ UNCHANGED <<stop_event, results, progress_counter, printed, report>>
    /\ UNCHANGED <<signalled, nwritten, wrote_success>>
    /\ UNCHANGED partVars
    /\ UNCHANGED workerVars

\* lines 99-102: queue.Empty
QueueEmpty ==
    /\ pc = "for_q"
    /\ idx <= Len(output_queues)
    /\ queue[output_queues[idx]] = <<>>
    /\ idx' = idx + 1
    /\ UNCHANGED <<pc, stop_event, results, progress_counter, printed, report>>
    /\ UNCHANGED <<signalled, nwritten, wrote_success>>
    /\ UNCHANGED partVars
    /\ UNCHANGED workerVars

\* lines 100, 103-110
TakeProgress ==
    /\ pc = "for_q"
    /\ idx <= Len(output_queues)
    /\ LET q == output_queues[idx] IN
        /\ queue[q] # <<>>
        /\ LET item == GetNowait(queue[q]) IN
            /\ Classify(item[2]) = "progress"
            /\ progress_counter' = progress_counter + 1
            /\ printed' = IF ThrottleHit(progress_counter + 1)
                          THEN [printed EXCEPT !.progress = @ + 1]
                          ELSE printed
        /\ queue' = [queue EXCEPT ![q] = AfterGet(@)]
    /\ idx' = idx + 1
    /\ UNCHANGED <<pc, stop_event, results, report>>
    /\ UNCHANGED <<signalled, nwritten, wrote_success>>
    /\ UNCHANGED partVars
    /\ UNCHANGED <<wpc, returncode, taskset, processes, output_queues>>

\* lines 100, 103, 111-116
TakeSuccess ==
    /\ pc = "for_q"
    /\ idx <= Len(output_queues)
    /\ LET q == output_queues[idx] IN
        /\ queue[q] # <<>>
        /\ LET item == GetNowait(queue[q]) IN
            /\ Classify(item[2]) = "success"
            /\ results' = [results EXCEPT ![item[1]] = item[2].val]
        /\ queue' = [queue EXCEPT ![q] = AfterGet(@)]
    /\ stop_event' = TRUE
    /\ pc' = SuccessNextPc
    /\ idx' = IF SuccessNextPc = "for_q" THEN idx + 1 ELSE 1
    /\ UNCHANGED <<progress_counter, printed, report>>
    /\ UNCHANGED <<signalled, nwritten, wrote_success>>
    /\ UNCHANGED partVars
    /\ UNCHANGED <<wpc, returncode, taskset, processes, output_queues>>

\* lines 100, 103, 117-120
TakeOther ==
    /\ pc = "for_q"
    /\ idx <= Len(output_queues)
    /\ LET q == output_queues[idx] IN
        /\ queue[q] # <<>>
        /\ LET item == GetNowait(queue[q]) IN
            /\ Classify(item[2]) = "other"
            /\ printed' = IF InfoPrinted(item[2])
                          THEN [printed EXCEPT !.info = @ + 1]
                          ELSE printed
        /\ queue' = [queue EXCEPT ![q] = AfterGet(@)]
    /\ idx' = idx + 1
    /\ UNCHANGED <<pc, stop_event, results, progress_counter, report>>
    /\ UNCHANGED <<signalled, nwritten, wrote_success>>
    /\ UNCHANGED partVars
    /\ UNCHANGED <<wpc, returncode, taskset, processes, output_queues>>

\* line 127: all() reaches the end of processes; line 128
AllExited ==
    /\ pc = "all_p"
    /\ idx > Len(processes)
    /\ pc' = AllExitedNextPc
    /\ idx' = 1
    /\ UNCHANGED <<stop_event, results, progress_counter, printed, report>>
    /\ UNCHANGED <<signalled, nwritten, wrote_success>>
    /\ UNCHANGED partVars
    /\ UNCHANGED workerVars

\* line 127: p.poll() is not None, all() goes on
PollExited ==
    /\ pc = "all_p"
    /\ idx <= Len(processes)
    /\ returncode[processes[idx]] # "running"
    /\ idx' = idx + 1
    /\ UNCHANGED <<pc, stop_event, results, progress_counter, printed, report>>
    /\ UNCHANGED <<signalled, nwritten, wrote_success>>
    /\ UNCHANGED partVars
    /\ UNCHANGED workerVars

\* line 127: p.poll() is None, all() is False; line 95 again
PollRunning ==
    /\ pc = "all_p"
    /\ idx <= Len(processes)
    /\ returncode[processes[idx]] = "running"
    /\ pc' = WhileNextPc(stop_event)
    /\ idx' = 1
    /\ UNCHANGED <<stop_event, results, progress_counter, printed, report>>
    /\ UNCHANGED <<signalled, nwritten, wrote_success>>
    /\ UNCHANGED partVars
    /\ UNCHANGED workerVars

(* ---------------- main thread: shutdown and report ---------------- *)

\* lines 134-138: p.terminate() sends SIGTERM unless the process was reaped
Terminate ==
    /\ pc = "shutdown"
    /\ idx <= Len(processes)
    /\ LET p == processes[idx] IN
        signalled' = IF returncode[p] = "running"
                     THEN [signalled EXCEPT ![p] = @ + 1]
                     ELSE signalled
    /\ idx' = idx + 1
    /\ UNCHANGED <<pc, stop_event, results, progress_counter, printed, report>>
    /\ UNCHANGED <<nwritten, wrote_success>>
    /\ UNCHANGED partVars
    /\ UNCHANGED workerVars

\* line 134: the iterator over processes is exhausted; line 140 sleeps (the
\* main thread reads nothing the workers do meanwhile); lines 143-147 report
\* and main() returns
Report ==
    /\ pc = "shutdown"
    /\ idx > Len(processes)
    /\ report' = FinalReport(results)
    /\ pc' = "done"
    /\ UNCHANGED <<idx, stop_event, results, progress_counter, printed>>
    /\ UNCHANGED <<signalled, nwritten, wrote_success>>
    /\ UNCHANGED partVars
    /\ UNCHANGED workerVars

\* KeyboardInterrupt in the main thread, inside the try of lines 94-131
InterruptLoop ==
    /\ pc \in LoopPcs
    /\ stop_event' = TRUE
    /\ pc' = "shutdown"
    /\ idx' = 1
    /\ UNCHANGED <<results, progress_counter, printed, report, signalled, nwritten, wrote_success>>
    /\ UNCHANGED partVars
    /\ UNCHANGED workerVars

\* KeyboardInterrupt inside the try of lines 135-138, before the signal is
\* sent: the bare except swallows it and the loop goes on with the next p
InterruptTerminate ==
    /\ pc = "shutdown"
    /\ idx <= Len(processes)
    /\ idx' = idx + 1
    /\ UNCHANGED <<pc, stop_event, results, progress_counter, printed, report>>
    /\ UNCHANGED <<signalled, nwritten, wrote_success>>
    /\ UNCHANGED partVars
    /\ UNCHANGED workerVars

\* KeyboardInterrupt where no handler is active (lines 68-93, 134, 140-147):
\* the traceback is printed and the interpreter exits
InterruptUncaught ==
    /\ pc \in {"begin", "startup", "shutdown"}
    /\ pc' = "aborted"
    /\ UNCHANGED <<idx, stop_event, results, progress_counter, printed, report>>
    /\ UNCHANGED <<signalled, nwritten, wrote_success>>
    /\ UNCHANGED partVars
    /\ UNCHANGED workerVars

(* ---------------- worker threads, engines, readers ---------------- *)

\* lines 35-59: the process is launched (taskset binds it to the CPU and
\* executes the engine in it) and registered, its queue is registered and its
\* reader thread started (one step: until both appends are done the main
\* thread sees the same as before the launch)
Launch(i) ==
    /\ Running
    /\ wpc[i] = "popen"
    /\ returncode' = [returncode EXCEPT ![i] = "running"]
    /\ taskset' = [taskset EXCEPT ![i] = "exec"]
    /\ processes' = Append(processes, i)
    /\ output_queues' = Append(output_queues, i)
    /\ wpc' = [wpc EXCEPT ![i] = "wait"]
    /\ UNCHANGED <<queue, signalled, nwritten, wrote_success>>
    /\ UNCHANGED partVars
    /\ UNCHANGED mainVars

\* lines 62-65: process.wait() returns, the process is removed
Reap(i) ==
    /\ Running
    /\ wpc[i] = "wait"
    /\ returncode[i] \in {"exit0", "exit1"}
    /\ processes' = IF \E k \in 1 .. Len(processes) : processes[k] = i
                    THEN Remove(processes, i)
                    ELSE processes
    /\ wpc' = [wpc EXCEPT ![i] = "finished"]
    /\ UNCHANGED <<returncode, taskset, output_queues, queue>>
    /\ UNCHANGED <<signalled, nwritten, wrote_success>>
    /\ UNCHANGED partVars
    /\ UNCHANGED mainVars

\* the engine process ends, by itself or on SIGTERM: status 0 after a
\* SUCCESS: line, non-zero otherwise
Exit(i) ==
    /\ Running
    /\ returncode[i] = "running"
    /\ taskset[i] = "exec"
    /\ returncode' = [returncode EXCEPT ![i] =
                         IF wrote_success[i] THEN "exit0" ELSE "exit1"]
    /\ UNCHANGED <<wpc, taskset, processes, output_queues, queue>>
    /\ UNCHANGED <<signalled, nwritten, wrote_success>>
    /\ UNCHANGED partVars
    /\ UNCHANGED mainVars

\* lines 28-29: the engine writes a line to its stdout and the reader thread
\* puts it, stripped, on the queue; after SUCCESS: the engine writes no more,
\* and what is written once the main loop has ended is never read
ReaderPut(i) ==
    /\ pc \in {"startup"} \cup LoopPcs
    /\ wpc[i] = "wait"
    /\ returncode[i] = "running"
    /\ taskset[i] = "exec"
    /\ nwritten < MaxLines
    /\ ~wrote_success[i]
    /\ \E raw \in RawLines(i) :
        /\ queue' = [queue EXCEPT ![i] = Put(@, <<i, Strip(raw)>>)]
        /\ wrote_success' = [wrote_success EXCEPT ![i] = (raw.kind = "SUCCESS:")]
    /\ nwritten' = nwritten + 1
    /\ UNCHANGED <<wpc, returncode, taskset, processes, output_queues>>
    /\ UNCHANGED signalled
    /\ UNCHANGED partVars
    /\ UNCHANGED mainVars

\* lines 35-59 when CPU seg_id % 64 cannot be bound (the machine has no such
\* CPU, or the process may not use it): Popen succeeds all the same, the
\* process is taskset
LaunchUnpinned(i) ==
    /\ Running
    /\ wpc[i] = "popen"
    /\ returncode' = [returncode EXCEPT ![i] = "running"]
    /\ taskset' = [taskset EXCEPT ![i] = "failed"]
    /\ processes' = Append(processes, i)
    /\ output_queues' = Append(output_queues, i)
    /\ wpc' = [wpc EXCEPT ![i] = "wait"]
    /\ UNCHANGED <<queue, signalled, nwritten, wrote_success>>
    /\ UNCHANGED partVars
    /\ UNCHANGED mainVars

\* taskset, unable to set the affinity, writes its error message (the reader
\* thread puts it on the queue, lines 28-29, unless the main loop has ended)
\* and exits with status 1 without executing ./prime_search
TasksetFails(i) ==
    /\ Running
    /\ returncode[i] = "running"
    /\ taskset[i] = "failed"
    /\ returncode' = [returncode EXCEPT ![i] = "exit1"]
    /\ queue' = IF pc \in {"startup"} \cup LoopPcs
                THEN [queue EXCEPT ![i] =
                         Put(@, <<i, Strip([kind |-> "text", val |-> <<>>])>>)]
                ELSE queue
    /\ UNCHANGED <<wpc, taskset, processes, output_queues>>
    /\ UNCHANGED <<signalled, nwritten, wrote_success>>
    /\ UNCHANGED partVars
    /\ UNCHANGED mainVars

(* ---------------- specifications ---------------- *)

Next ==
    \/ ComputeSegLen \/ StartSegment \/ EnterLoop
    \/ QueuesDone \/ QueueEmpty \/ TakeProgress \/ TakeSuccess \/ TakeOther
    \/ AllExited \/ PollExited \/ PollRunning
    \/ Terminate \/ Report
    \/ InterruptLoop \/ InterruptTerminate \/ InterruptUncaught
    \/ \E i \in Segs : Launch(i) \/ Reap(i) \/ ReaderPut(i) \/ Exit(i)

Spec == Init /\ [][Next]_vars

\* the run when no KeyboardInterrupt arrives
NextQuiet ==
    \/ ComputeSegLen \/ StartSegment \/ EnterLoop
    \/ QueuesDone \/ QueueEmpty \/ TakeProgress \/ TakeSuccess \/ TakeOther
    \/ AllExited \/ PollExited \/ PollRunning
    \/ Terminate \/ Report
    \/ \E i \in Segs : Launch(i) \/ Reap(i) \/ ReaderPut(i) \/ Exit(i)

SpecQuiet == Init /\ [][NextQuiet]_vars

\* a step of the main thread
MainStep ==
    \/ ComputeSegLen \/ StartSegment \/ EnterLoop
    \/ QueuesDone \/ QueueEmpty \/ TakeProgress \/ TakeSuccess \/ TakeOther
    \/ AllExited \/ PollExited \/ PollRunning
    \/ Terminate \/ Report

\* the run when no KeyboardInterrupt arrives and the main thread is always
\* scheduled again: nothing it executes blocks (get_nowait, poll, terminate
\* and the bounded sleeps of lines 90, 124 and 140).  Nothing is assumed of
\* the engines: a process may run for ever.
SpecLive == Init /\ [][NextQuiet]_vars /\ WF_vars(MainStep)

\* the run, without KeyboardInterrupt, on a machine where taskset may fail
\* to bind the CPU.  (Spec and SpecQuiet leave that failure out: to the main
\* thread such a process is one that writes a line of free text and exits
\* with a non-zero status, which an engine of those specifications does too.)
NextPin ==
    \/ NextQuiet
    \/ \E i \in Segs : LaunchUnpinned(i) \/ TasksetFails(i)

SpecPin == Init /\ [][NextPin]_vars

\* the startup loop alone, for every configuration of PartCfgs
NextPart == ComputeSegLen \/ StartSegment \/ EnterLoop \/ InterruptUncaught

SpecPart == InitPart /\ [][NextPart]_vars

(* ======================= the claims ======================= *)

Exited(i) == returncode[i] \in {"exit0", "exit1"}

Writers == {i \in Segs : wrote_success[i]}

MinOf(S) == CHOOSE m \in S : \A x \in S : m <= x

\* a SUCCESS: line has been dequeued and recorded
Recorded == \E i \in Segs : results[i] # None

\* this step dequeues a line of the given kind
Dequeues(kind) ==
    \E q \in Segs :
        /\ queue[q] # <<>>
        /\ queue'[q] = Tail(queue[q])
        /\ Head(queue[q])[2].kind = kind

\* position of queue q in output_queues (0 when it is not registered)
QueuePos(q) ==
    IF \E k \in 1 .. Len(output_queues) : output_queues[k] = q
    THEN CHOOSE k \in 1 .. Len(output_queues) : output_queues[k] = q
    ELSE 0

(* ---- C1 ---- *)
\* C1: when two (or more) segments have each written a SUCCESS: line and the
\* run ends with a reported value, that value is the numeric minimum of the
\* values written.
C1_ReportsNumericMinimum ==
    (pc = "done" /\ Cardinality(Writers) >= 2 /\ report.kind = "min")
        => NumOf(report.val) = MinOf({NumOf(SuccessValue(i)) : i \in Writers})

(* ---- C2 ---- *)
\* C2: when the shutdown loop has finished, every engine process that is
\* still running has been sent the termination request, and no process has
\* been sent it twice.
C2_TerminatesEachRunningOnce ==
    pc = "done" =>
        \A i \in Segs : /\ signalled[i] <= 1
                        /\ returncode[i] = "running" => signalled[i] = 1

(* ---- C3 ---- *)
\* C3: once a SUCCESS: line has been dequeued the main thread is no longer in
\* the polling loop (no further queue is polled, no further tick starts), and
\* from then on no line is dequeued and no PROGRESS: line is counted or logged.
C3_SuccessEndsLoop ==
    [][/\ Recorded' => pc' \notin LoopPcs
       /\ Recorded => /\ \A i \in Segs : Len(queue'[i]) >= Len(queue[i])
                      /\ progress_counter' = progress_counter
                      /\ printed' = printed]_vars

\* C3 witness: the loop has ended on a SUCCESS: line while a PROGRESS: line
\* waits in a queue that comes later in output_queues
C3_Witness ==
    /\ pc = "shutdown"
    /\ \E i, j \in Segs :
        /\ results[i] # None
        /\ QueuePos(i) > 0
        /\ QueuePos(j) > QueuePos(i)
        /\ queue[j] # <<>>
        /\ Head(queue[j])[2].kind = "PROGRESS:"

(* ---- C4 ---- *)
\* C4: when the loop ends without a success and without an interrupt
\* (stop_event is not set), every worker's engine process has exited.
C4_LoopEndsOnlyWhenAllExited ==
    [][(pc \in LoopPcs /\ pc' = "shutdown" /\ ~stop_event')
          => \A i \in Segs : Exited(i)]_vars

(* ---- C5 ---- *)
PartitionDone == pc = "for_q" /\ Len(segs) = cfg.n

ValidCfg ==
    /\ cfg.te > cfg.ts
    /\ cfg.n >= 1
    /\ cfg.ov >= 0
    /\ cfg.ov < seg_len

RECURSIVE CoreLenSum(_)
CoreLenSum(k) ==
    IF k = 0 THEN 0 ELSE CoreLenSum(k - 1) + (segs[k].core_end - segs[k].core_start + 1)

\* C5: for a valid configuration the core ranges are non-empty, the first
\* starts at total_start, each next one starts right after the one before, the
\* last ends at total_end, and their lengths sum to total_end - total_start + 1.
C5_CoreRangesCover ==
    (PartitionDone /\ ValidCfg) =>
        /\ segs[1].core_start = cfg.ts
        /\ segs[cfg.n].core_end = cfg.te
        /\ \A k \in 1 .. cfg.n : segs[k].core_start <= segs[k].core_end
        /\ \A k \in 1 .. (cfg.n - 1) : segs[k + 1].core_start = segs[k].core_end + 1
        /\ CoreLenSum(cfg.n) = cfg.te - cfg.ts + 1

\* C5 witness: a valid configuration of three segments whose length is not a
\* multiple of three, so that the last segment absorbs a remainder
C5_Witness ==
    /\ PartitionDone
    /\ ValidCfg
    /\ cfg.n = 3
    /\ (cfg.te - cfg.ts) % cfg.n # 0
    /\ cfg.ov >= 1

(* ---- C6 ---- *)
\* integers the extended ranges of segments k and k+1 have in common
Shared(k) ==
    Cardinality((segs[k].extended_start .. segs[k].extended_end)
                \cap (segs[k + 1].extended_start .. segs[k + 1].extended_end))

\* an extended bound at the boundary between segments k and k+1 was clipped
Clipped(k) ==
    \/ segs[k].core_end + cfg.ov > cfg.te
    \/ segs[k + 1].core_start - cfg.ov < cfg.ts

\* C6 as stated: at every internal boundary the two extended ranges share
\* exactly overlap integers, or fewer only where a bound was clipped.
C6_SharedIsOverlap ==
    (PartitionDone /\ cfg.te > cfg.ts) =>
        \A k \in 1 .. (cfg.n - 1) :
            \/ Shared(k) = cfg.ov
            \/ Shared(k) < cfg.ov /\ Clipped(k)

\* C6 amended: at every internal boundary the two extended ranges share
\* exactly 2 * overlap integers (overlap on each side of the boundary), or
\* fewer only where a bound was clipped.
C6_SharedIsTwiceOverlap ==
    (PartitionDone /\ cfg.te > cfg.ts) =>
        \A k \in 1 .. (cfg.n - 1) :
            \/ Shared(k) = 2 * cfg.ov
            \/ Shared(k) < 2 * cfg.ov /\ Clipped(k)

\* C6 witness: an internal boundary with overlap >= 1 and no clipping
C6_Witness ==
    /\ PartitionDone
    /\ ValidCfg
    /\ cfg.n >= 2
    /\ cfg.ov >= 1
    /\ ~Clipped(1)
    /\ Shared(1) = 2 * cfg.ov

(* ---- C7 ---- *)
\* C7 as stated: the example yields Segment0 core [100,149] extended [95,154]
\* and Segment1 core [150,200] extended [145,200].
C7_ExampleAsStated ==
    (cfg = ExampleCfg /\ PartitionDone) =>
        segs = <<[id |-> 0, core_start |-> 100, core_end |-> 149,
                  extended_start |-> 95, extended_end |-> 154],
                 [id |-> 1, core_start |-> 150, core_end |-> 200,
                  extended_start |-> 145, extended_end |-> 200]>>

\* C7 amended: the example yields Segment0 core [100,149] extended [100,154]
\* (the start is clipped at total_start) and Segment1 core [150,200]
\* extended [145,200].
C7_Example ==
    (cfg = ExampleCfg /\ PartitionDone) =>
        segs = <<[id |-> 0, core_start |-> 100, core_end |-> 149,
                  extended_start |-> 100, extended_end |-> 154],
                 [id |-> 1, core_start |-> 150, core_end |-> 200,
                  extended_start |-> 145, extended_end |-> 200]>>

\* C7 witness: the example has been partitioned
C7_Witness == cfg = ExampleCfg /\ PartitionDone /\ Len(segs) = 2

(* ---- C8 ---- *)
\* C8: a KeyboardInterrupt never ends the run abruptly: wherever it arrives
\* it is caught, so the main thread never dies of an uncaught one.
C8_InterruptNeverAborts == pc # "aborted"

(* ---- C9 ---- *)
\* C9: as long as no engine has written a SUCCESS: line, results is empty,
\* and a run that ends then reports "no result found".
C9_NoSuccessNoResult ==
    (\A i \in Segs : ~wrote_success[i]) =>
        /\ \A i \in Segs : results[i] = None
        /\ pc = "done" => report.kind = "none"

\* C9 witness: every worker was launched and has exited, lines other than
\* SUCCESS: were consumed, no interrupt ended the loop, and the run reported
\* "no result found"
C9_Witness ==
    /\ pc = "done"
    /\ ~stop_event
    /\ \A i \in Segs : Exited(i) /\ ~wrote_success[i]
    /\ progress_counter + printed.info >= 1
    /\ report.kind = "none"

(* ---- C10 ---- *)
\* C10: progress_counter changes only by growing by one, exactly in the steps
\* that dequeue a PROGRESS: line; a progress log line is printed only in such
\* a step and only when the new counter is a multiple of the throttle; and
\* the log lines printed never exceed ceil(progress_counter / throttle).
C10_ThrottledProgress ==
    /\ [](printed.progress * PROGRESS_THROTTLE
             <= progress_counter + PROGRESS_THROTTLE - 1)
    /\ [][/\ progress_counter' =
               progress_counter + (IF Dequeues("PROGRESS:") THEN 1 ELSE 0)
          /\ printed'.progress # printed.progress =>
               /\ printed'.progress = printed.progress + 1
               /\ Dequeues("PROGRESS:")
               /\ progress_counter' % PROGRESS_THROTTLE = 0]_vars

\* C10 witness: PROGRESS: lines were consumed up to the throttle and the one
\* log line that allows was printed
C10_Witness ==
    /\ progress_counter = PROGRESS_THROTTLE
    /\ printed.progress = 1

(* ---- C11 ---- *)
\* a configuration the partitioner is to refuse
InvalidCfg == cfg.n < 1 \/ cfg.te <= cfg.ts

\* C11: with segment_count < 1 or total_end <= total_start the run stops
\* before any worker is started: no segment is handed out, no worker thread
\* is started and the polling loop is never entered.
C11_InvalidConfigAborts ==
    InvalidCfg =>
        /\ started = 0
        /\ \A i \in Segs : wpc[i] = "notstarted"
        /\ pc \notin LoopPcs

(* ---- C19 ---- *)
\* C19: for total_end > total_start, segment_count >= 1 and overlap >= 0,
\* every segment's extended range lies within [total_start, total_end] and
\* contains its core range.
C19_ExtendedWithinTotal ==
    (cfg.te > cfg.ts /\ cfg.n >= 1 /\ cfg.ov >= 0) =>
        \A k \in 1 .. Len(segs) :
            /\ cfg.ts <= segs[k].extended_start
            /\ segs[k].extended_start <= segs[k].core_start
            /\ segs[k].core_end <= segs[k].extended_end
            /\ segs[k].extended_end <= cfg.te

\* C19 witness: three segments with overlap >= 1, where the first extended
\* start and the last extended end are clipped at the total bounds and the
\* middle segment is extended on both sides
C19_Witness ==
    /\ PartitionDone
    /\ cfg.te > cfg.ts
    /\ cfg.n = 3
    /\ cfg.ov >= 1
    /\ segs[1].extended_start = cfg.ts
    /\ segs[3].extended_end = cfg.te
    /\ segs[2].extended_start < segs[2].core_start
    /\ segs[2].extended_end > segs[2].core_end

(* ---- C12 ---- *)
\* the worker of segment i has launched its process
Launched(i) == wpc[i] \in {"wait", "finished"}

\* C12: whether or not the CPU could be bound, the process a worker has
\* launched runs the engine of its segment.
C12_PinFailureStillRuns ==
    \A i \in Segs : Launched(i) => taskset[i] = "exec"

(* ---- C13 ---- *)
\* the process of segment i has exited with a non-zero status and its
\* engine had written no SUCCESS: line
Failed(i) == returncode[i] = "exit1" /\ ~wrote_success[i]

\* C13: the step in which a process exits with a non-zero status changes
\* neither stop_event nor results nor where the main thread is; and while
\* some process has so failed and another is still running, the polling loop
\* is left only with stop_event set (a success), so the running worker goes
\* on being polled.
C13_ExitDoesNotStopRun ==
    [][/\ (\E i \in Segs : returncode[i] = "running" /\ Failed(i)')
            => UNCHANGED <<stop_event, results, pc>>
       /\ (/\ pc \in LoopPcs
           /\ \E i \in Segs : Failed(i)
           /\ \E j \in Segs : returncode[j] = "running")
            => (pc' \in LoopPcs \/ stop_event')]_vars

(* ---- C14 ---- *)
\* C14: when the polling loop has ended (no KeyboardInterrupt having
\* arrived) and some reader had put a SUCCESS: line on its queue while the
\* loop ran, a SUCCESS: line has been dequeued and recorded, and the final
\* report is a value.
C14_SuccessNeverLost ==
    (pc \in {"shutdown", "done"} /\ \E i \in Segs : wrote_success[i]) =>
        /\ Recorded
        /\ pc = "done" => report.kind = "min"

(* ---- C15 ---- *)
\* what the main thread does with a dequeued item, by the item's line
ObservedAs(item) ==
    /\ item[2].kind = "PROGRESS:" => progress_counter' = progress_counter + 1
    /\ item[2].kind = "SUCCESS:" => results'[item[1]] = item[2].val
    /\ item[2].kind = "text" => printed'.info = printed.info + 1
    /\ item[2].kind \in {"", "text"} =>
           progress_counter' = progress_counter /\ results' = results

\* C15: a queue changes only by one line joining behind all the lines
\* waiting, or by its oldest line leaving; and the line that leaves is the
\* one the main thread acts on in that step.  So of two lines of one worker
\* the one written first is dequeued first, and none is dequeued twice.
C15_FifoPerWorker ==
    [][\A q \in Segs :
          \/ queue'[q] = queue[q]
          \/ /\ Len(queue'[q]) = Len(queue[q]) + 1
             /\ SubSeq(queue'[q], 1, Len(queue[q])) = queue[q]
             /\ UNCHANGED mainVars
          \/ /\ queue[q] # <<>>
             /\ queue'[q] = Tail(queue[q])
             /\ ObservedAs(Head(queue[q]))]_vars

\* C15 witness: one worker alone has written a PROGRESS: line and then a
\* line of free text; the first has been dequeued and counted, the second
\* is the one still waiting
C15_Witness ==
    \E i \in Segs :
        /\ \A j \in Segs \ {i} : returncode[j] = "unborn"
        /\ nwritten = 2
        /\ progress_counter = 1
        /\ printed.info = 0
        /\ queue[i] = <<<<i, [kind |-> "text", val |-> <<>>]>>>>

(* ---- C16 ---- *)
\* C16: if every engine process eventually exits (an exited process stays
\* exited, so eventually all of them have), or a SUCCESS: line is eventually
\* dequeued, then the polling loop ends, the shutdown loop and the sleep
\* after it are gone through and the final report is produced, whether or
\* not a process that was sent the termination request ever exits.
C16_RunCompletes ==
    <>((\A i \in Segs : Exited(i)) \/ Recorded)
        => <>(pc = "done" /\ report.kind # "pending")

\* C16 witness: the report has been produced while a process that was sent
\* the termination request is still running
C16_Witness ==
    /\ pc = "done"
    /\ report.kind # "pending"
    /\ \E i \in Segs : returncode[i] = "running" /\ signalled[i] >= 1

(* ---- C17 ---- *)
\* C17: the step that dequeues a line which is neither PROGRESS: nor
\* SUCCESS: leaves results, progress_counter and stop_event as they are and
\* stays in the polling loop; it prints exactly one informational line when
\* the line is not empty and nothing when it is empty.
C17_OtherLineFrame ==
    [][/\ (Dequeues("text") \/ Dequeues(""))
            => /\ UNCHANGED <<results, progress_counter, stop_event>>
               /\ pc' \in LoopPcs
               /\ printed'.progress = printed.progress
       /\ Dequeues("text") => printed'.info = printed.info + 1
       /\ Dequeues("") => printed'.info = printed.info]_vars

\* C17 witness: a line of free text and an empty line have both been
\* dequeued, one informational line was printed and the loop goes on
C17_Witness ==
    /\ pc \in LoopPcs
    /\ nwritten = 2
    /\ \A i \in Segs : queue[i] = <<>> /\ ~wrote_success[i]
    /\ progress_counter = 0
    /\ printed.info = 1

(* ---- C18 ---- *)
\* C18: at most one entry of results is ever set; and once stop_event is
\* set, results is not modified again and stop_event is not cleared.
C18_SingleResult ==
    /\ [](Cardinality({i \in Segs : results[i] # None}) <= 1)
    /\ [][stop_event => (results' = results /\ stop_event')]_vars

\* C18 witness: the run has ended with one value recorded while the
\* SUCCESS: line of another worker was left in its queue
C18_Witness ==
    /\ pc = "done"
    /\ stop_event
    /\ \E i, j \in Segs :
        /\ i # j
        /\ results[i] # None
        /\ results[j] = None
        /\ queue[j] # <<>>
        /\ Head(queue[j])[2].kind = "SUCCESS:"

====
